---- MODULE Spec2Model ----
(***************************************************************************)
(* Session-scoped credential relay of the remote MCP gateway.              *)
(*                                                                         *)
(* A JavaScript string is modelled as a sequence of one-character strings, *)
(* so that the header pattern, the JSON body of the internal store call    *)
(* and the style-namespaced actor name are computed character by           *)
(* character.  null / undefined is the value Null, which is no string.     *)
(***************************************************************************)
EXTENDS Integers, Sequences, FiniteSets, TLC

VARIABLES req, nreq, storage, putLog, uidCount, lastRet

\* state of the actor's other revisions: the instance field that caches the
\* token and the Authorization headers its fetch has seen; the last call of
\* generate_gen4_image; the sandbox map and what its tools have returned
VARIABLES currentBearerToken, fetched, gen4, sandboxes, sbx

\* the gateway of the durable-storage revision
gatewayVars == <<req, nreq, storage, putLog, uidCount, lastRet>>

revisionVars == <<currentBearerToken, fetched, gen4, sandboxes, sbx>>

vars == <<req, nreq, storage, putLog, uidCount, lastRet,
          currentBearerToken, fetched, gen4, sandboxes, sbx>>

-----------------------------------------------------------------------------
(* Bounds *)

\* number of client requests the gateway receives in one behaviour
MaxReq == 2

Requests == 1..MaxReq

-----------------------------------------------------------------------------
(* Values *)

\* null (and undefined): not a string
Null == <<"<null>">>

Truthy(s) == s # Null /\ s # <<>>

\* characters no TLA+ string can hold, by the name of their code unit: the
\* vertical tab, the no-break space, the backspace and the grave accent
VT == "<U+000B>"
NBSP == "<U+00A0>"
BS == "<U+0008>"
GRAVE == "<U+0060>"

\* the characters \s matches among those a header value can hold: a header
\* value is a byte string, without line feed and carriage return
Whitespace == {" ", "\t", "\f", VT, NBSP}

\* what the Headers class strips from both ends of a header value
HttpWhitespace == {" ", "\t"}

\* case folding, on the letters the pattern's literal part can match
Lower(c) ==
    CASE c = "B" -> "b"
      [] c = "E" -> "e"
      [] c = "A" -> "a"
      [] c = "R" -> "r"
      [] OTHER -> c

\* request paths a client may send (url.pathname, only ever compared)
P_sse == "/sse"
P_msg == "/sse/message"
P_mcp == "/mcp"
P_store == "/store-bearer-token"
P_other == "/"

Paths == {P_sse, P_msg, P_mcp, P_store, P_other}

\* a session key, the name of an actor: strings that are only compared and
\* concatenated.  NoKey is null or the empty string, which the code does not
\* tell apart (it tests !sessionId)
NoKey == ""

HasKey(k) == k # NoKey

\* bearer tokens clients use; each holds a character JSON escapes (a tab, a
\* double quote)
TokA == <<"t", "\t", "A">>
TokB == <<"q", "\"">>

\* Authorization header values clients send (Null: no header)
H_A == <<"B", "e", "a", "r", "e", "r", " ">> \o TokA
H_B == <<"b", "e", "a", "r", "e", "r", " ", NBSP>> \o TokB
H_basic == <<"B", "a", "s", "i", "c", " ", "x", "y", "z">>

AuthHeaders == {Null, H_A, H_B, H_basic}

\* a session key a client may invent
S1 == "S1"

\* another one
S2 == "S2"

-----------------------------------------------------------------------------
(* Pure functions of the gateway *)

\* length of the longest run of whitespace of s starting at index i
RECURSIVE WsRun(_, _)
WsRun(s, i) ==
    IF i <= Len(s) /\ s[i] \in Whitespace THEN 1 + WsRun(s, i + 1) ELSE 0

\* authHeader.match(/^Bearer\s+(.+)$/i): the captured group, or Null
BearerMatch(h) ==
    LET n == WsRun(h, 7) IN
    IF /\ Len(h) >= 7
       /\ [i \in 1..6 |-> Lower(h[i])] = <<"b", "e", "a", "r", "e", "r">>
       /\ n >= 1
    THEN IF 6 + n < Len(h)
         THEN SubSeq(h, 7 + n, Len(h))
         ELSE IF n >= 2 THEN SubSeq(h, Len(h), Len(h)) ELSE Null
    ELSE Null

\* a pattern that accepts any scheme: /^\w+\s+(.+)$/
extractAnyScheme(authHeader) ==
    IF ~Truthy(authHeader) THEN Null
    ELSE IF \E i \in 1..Len(authHeader) : authHeader[i] \in Whitespace
         THEN LET i == CHOOSE i \in 1..Len(authHeader) :
                          /\ authHeader[i] \in Whitespace
                          /\ \A j \in 1..(i - 1) : authHeader[j] \notin Whitespace
              IN SubSeq(authHeader, i + WsRun(authHeader, i), Len(authHeader))
         ELSE Null

\* the pattern without its i flag: /^Bearer\s+(.+)$/
extractCaseSensitive(authHeader) ==
    IF ~Truthy(authHeader) THEN Null
    ELSE IF Len(authHeader) >= 6
            /\ SubSeq(authHeader, 1, 6) = <<"B", "e", "a", "r", "e", "r">>
         THEN BearerMatch(authHeader)
         ELSE Null

extractBearerToken(authHeader) ==
    IF ~Truthy(authHeader) THEN Null ELSE BearerMatch(authHeader)

\* an id source that hands out the same id every time
newRepeatedId(n) == "#1"

\* env.MCP_OBJECT.newUniqueId().toString(): the n-th id the namespace hands out
newUniqueId(n) == "#" \o ToString(n)

\* request.json() threw a SyntaxError
ParseError == <<"<SyntaxError>">>

\* the printable characters, U+0020 to U+007E
AsciiChars ==
    <<" ", "!", "\"", "#", "$", "%", "&", "'", "(", ")", "*", "+",
      ",", "-", ".", "/", "0", "1", "2", "3", "4", "5", "6", "7",
      "8", "9", ":", ";", "<", "=", ">", "?", "@", "A", "B", "C",
      "D", "E", "F", "G", "H", "I", "J", "K", "L", "M", "N", "O",
      "P", "Q", "R", "S", "T", "U", "V", "W", "X", "Y", "Z", "[",
      "\\", "]", "^", "_", GRAVE, "a", "b", "c", "d", "e", "f", "g",
      "h", "i", "j", "k", "l", "m", "n", "o", "p", "q", "r", "s",
      "t", "u", "v", "w", "x", "y", "z", "{", "|", "}", "~">>

\* the value of a hexadecimal digit, -1 for any other character
HexVal(d) ==
    CASE d = "0" -> 0 [] d = "1" -> 1 [] d = "2" -> 2 [] d = "3" -> 3
      [] d = "4" -> 4 [] d = "5" -> 5 [] d = "6" -> 6 [] d = "7" -> 7
      [] d = "8" -> 8 [] d = "9" -> 9
      [] d \in {"a", "A"} -> 10 [] d \in {"b", "B"} -> 11
      [] d \in {"c", "C"} -> 12 [] d \in {"d", "D"} -> 13
      [] d \in {"e", "E"} -> 14 [] d \in {"f", "F"} -> 15
      [] OTHER -> -1

HexDigit(n) == <<"0", "1", "2", "3", "4", "5", "6", "7", "8", "9",
                 "A", "B", "C", "D", "E", "F">>[n + 1]

LowerHexDigit(n) == <<"0", "1", "2", "3", "4", "5", "6", "7", "8", "9",
                      "a", "b", "c", "d", "e", "f">>[n + 1]

\* the character of a code unit
CodeUnit(n) ==
    CASE n >= 32 /\ n <= 126 -> AsciiChars[n - 31]
      [] n = 8 -> BS
      [] n = 9 -> "\t"
      [] n = 10 -> "\n"
      [] n = 11 -> VT
      [] n = 12 -> "\f"
      [] n = 13 -> "\r"
      [] n = 160 -> NBSP
      [] OTHER -> "<U+" \o HexDigit(n \div 4096) \o HexDigit((n \div 256) % 16)
                        \o HexDigit((n \div 16) % 16) \o HexDigit(n % 16) \o ">"

\* the control characters, U+0000 to U+001F: JSON.stringify escapes them and
\* a JSON string may not hold them unescaped
JsonControls == {CodeUnit(n) : n \in 0..31}

\* JSON.stringify of a string: quoted, with ", \ and the control characters
\* escaped
JsonEscapeChar(c) ==
    CASE c = "\"" -> <<"\\", "\"">>
      [] c = "\\" -> <<"\\", "\\">>
      [] c = "\t" -> <<"\\", "t">>
      [] c = "\n" -> <<"\\", "n">>
      [] c = "\f" -> <<"\\", "f">>
      [] c = "\r" -> <<"\\", "r">>
      [] c = BS -> <<"\\", "b">>
      [] c \in JsonControls \ {"\t", "\n", "\f", "\r", BS} ->
            LET n == CHOOSE m \in 0..31 : CodeUnit(m) = c
            IN <<"\\", "u", "0", "0", LowerHexDigit(n \div 16), LowerHexDigit(n % 16)>>
      [] OTHER -> <<c>>

RECURSIVE JsonEscape(_)
JsonEscape(s) ==
    IF s = <<>> THEN <<>> ELSE JsonEscapeChar(Head(s)) \o JsonEscape(Tail(s))

JsonString(s) == <<"\"">> \o JsonEscape(s) \o <<"\"">>

\* JSON.stringify({ token }): {"token":"..."}
BodyOpen == <<"{", "\"", "t", "o", "k", "e", "n", "\"", ":">>

JsonStringify(token) == BodyOpen \o JsonString(token) \o <<"}">>

\* the character a two-character escape stands for (Null: no such escape)
JsonEscaped(c) ==
    CASE c = "\"" -> <<"\"">>
      [] c = "\\" -> <<"\\">>
      [] c = "/" -> <<"/">>
      [] c = "b" -> <<BS>>
      [] c = "f" -> <<"\f">>
      [] c = "n" -> <<"\n">>
      [] c = "r" -> <<"\r">>
      [] c = "t" -> <<"\t">>
      [] OTHER -> Null

\* the content of a JSON string literal decoded, or ParseError
RECURSIVE JsonUnescape(_)
JsonUnescape(s) ==
    IF s = <<>> THEN <<>>
    ELSE IF Head(s) \in JsonControls \cup {"\""} THEN ParseError
    ELSE IF Head(s) # "\\"
    THEN LET rest == JsonUnescape(Tail(s)) IN
         IF rest = ParseError THEN ParseError ELSE <<Head(s)>> \o rest
    ELSE IF Len(s) < 2 THEN ParseError
    ELSE IF s[2] = "u"
    THEN IF Len(s) < 6 \/ \E k \in 3..6 : HexVal(s[k]) = -1 THEN ParseError
         ELSE LET n == 4096 * HexVal(s[3]) + 256 * HexVal(s[4])
                       + 16 * HexVal(s[5]) + HexVal(s[6])
                  rest == JsonUnescape(SubSeq(s, 7, Len(s)))
              IN IF rest = ParseError THEN ParseError ELSE <<CodeUnit(n)>> \o rest
    ELSE IF JsonEscaped(s[2]) = Null THEN ParseError
    ELSE LET rest == JsonUnescape(SubSeq(s, 3, Len(s))) IN
         IF rest = ParseError THEN ParseError ELSE JsonEscaped(s[2]) \o rest

\* a parse that leaves the escapes of the body in the token
JsonParseRaw(b) == SubSeq(b, Len(BodyOpen) + 2, Len(b) - 2)

\* const { token } = await request.json(): the token member of the body
JsonParse(b) == JsonUnescape(SubSeq(b, Len(BodyOpen) + 2, Len(b) - 2))

-----------------------------------------------------------------------------
(* The gateway router: default.fetch up to its first await *)

\* a router that authenticates before it routes
RecognizedAny(path) == TRUE

Recognized(path) == path \in {P_sse, P_msg, P_mcp}

\* a resolver that takes the key from whichever location holds one
ResolveAnyLocation(path, qsid, hsid, n) ==
    IF path \in {P_sse, P_mcp}
    THEN (IF HasKey(qsid) THEN qsid
          ELSE IF HasKey(hsid) THEN hsid ELSE newUniqueId(n + 1))
    ELSE NoKey

\* the session key the router resolves, n being the ids handed out so far
ResolveSessionId(path, qsid, hsid, n) ==
    IF path = P_sse THEN (IF HasKey(qsid) THEN qsid ELSE newUniqueId(n + 1))
    ELSE IF path = P_mcp THEN (IF HasKey(hsid) THEN hsid ELSE newUniqueId(n + 1))
    ELSE NoKey

\* does resolving the key consume a fresh id
ResolveAllocates(path, qsid, hsid) ==
    \/ path = P_sse /\ ~HasKey(qsid)
    \/ path = P_mcp /\ ~HasKey(hsid)

EndpointType(path) == IF path = P_sse THEN "sse" ELSE "mcp"

\* one prefix for both styles
doPrefixShared(endpointType) == "sse"

doPrefix(endpointType) ==
    IF endpointType = "sse" THEN "sse" ELSE "streamable-http"

\* the name given to idFromName: `${doPrefix}:${sessionId}`
ActorName(endpointType, sessionId) == doPrefix(endpointType) \o ":" \o sessionId

createUnauthorizedResponse == 401

-----------------------------------------------------------------------------
(* The connection-style handler the router hands the request to.  It gets   *)
(* the original request only, and runs the session in the actor it derives  *)
(* from that request: "sse:<key>" or "streamable-http:<key>".               *)

HandlerPrefix(path) == IF path = P_mcp THEN "streamable-http" ELSE "sse"

HandlerAllocates(path, qsid, hsid) ==
    \/ path = P_sse /\ ~HasKey(qsid)
    \/ path = P_mcp /\ ~HasKey(hsid)

HandlerSessionKey(path, qsid, hsid, n) ==
    IF path = P_mcp
    THEN (IF HasKey(hsid) THEN hsid ELSE newUniqueId(n + 1))
    ELSE IF HasKey(qsid) THEN qsid
         ELSE IF path = P_sse THEN newUniqueId(n + 1) ELSE NoKey

HandlerActor(path, key) ==
    IF key = NoKey THEN NoKey ELSE HandlerPrefix(path) \o ":" \o key

-----------------------------------------------------------------------------
(* The session actor's durable storage *)

\* this.ctx.storage.get("bearerToken"): undefined when nothing was put
StorageGet(st, actor) == IF actor \in DOMAIN st THEN st[actor] ELSE Null

\* a put that keeps a value already held
StoragePutIfAbsent(st, actor, token) ==
    [a \in DOMAIN st \cup {actor} |->
        IF a = actor /\ a \notin DOMAIN st THEN token ELSE st[a]]

\* a put that appends to the value already held
StoragePutAppend(st, actor, token) ==
    [a \in DOMAIN st \cup {actor} |->
        IF a = actor THEN (IF a \in DOMAIN st THEN st[a] \o token ELSE token)
        ELSE st[a]]

\* a put into one store shared by all actors
StoragePutShared(st, actor, token) ==
    [a \in DOMAIN st \cup {actor} |-> token]

\* this.ctx.storage.put("bearerToken", token)
StoragePut(st, actor, token) ==
    [a \in DOMAIN st \cup {actor} |-> IF a = actor THEN token ELSE st[a]]

\* a retrieval from the instance field currentBearerToken, which nothing sets
getCachedToken(st, actor, readFails) == Null

\* a retrieval that yields the empty string where nothing is stored
getEmptyWhenAbsent(st, actor, readFails) ==
    IF readFails THEN Null
    ELSE IF actor \in DOMAIN st THEN st[actor] ELSE <<>>

\* a retrieval whose catch returns the error's text in place of null
getErrorAsToken(st, actor, readFails) ==
    IF readFails THEN <<"E", "r", "r">>
    ELSE LET token == StorageGet(st, actor) IN
         IF Truthy(token) THEN token ELSE Null

\* getBearerToken: the stored token, null when none or when the read throws
getBearerToken(st, actor, readFails) ==
    IF readFails THEN Null
    ELSE LET token == StorageGet(st, actor) IN
         IF Truthy(token) THEN token ELSE Null

-----------------------------------------------------------------------------
(* State *)

NoRequest ==
    [pc |-> "idle", path |-> "", auth |-> Null, qsid |-> NoKey, hsid |-> NoKey,
     token |-> Null, sessionId |-> NoKey, target |-> NoKey, body |-> Null,
     storeCalls |-> 0, reply |-> 0, status |-> 0,
     handled |-> FALSE, handlerKey |-> NoKey, threw |-> FALSE, method |-> ""]

NoRetrieval == [r |-> 0, readOk |-> FALSE, value |-> Null]

\* generate_gen4_image has not been called
NoCall == [called |-> FALSE]

\* the sandbox tools have returned nothing, and no closeSandbox is in progress
NoSandboxCalls ==
    [created |-> 0, calls |-> 0, returned |-> {}, closed |-> {}, closing |-> <<>>, running |-> <<>>,
     last |-> [op |-> "none", id |-> 0, success |-> FALSE, error |-> ""]]

\* session keys a client can put on a request: one of its own invention, or
\* one the handler has told it
KnownKeys == {S1} \cup {req[r].handlerKey : r \in {q \in Requests : req[q].handlerKey # NoKey}}

\* the requests a client may send next: any path and Authorization header; on
\* the gateway's routes a session key in the query, in the mcp-session-id
\* header, or in neither
ClientRequests ==
    {[path |-> p, auth |-> h, qsid |-> k[1], hsid |-> k[2]] :
        p \in {P_sse, P_msg, P_mcp}, h \in AuthHeaders,
        k \in {<<NoKey, NoKey>>} \cup {<<x, NoKey>> : x \in KnownKeys}
                               \cup {<<NoKey, x>> : x \in KnownKeys}}
    \cup {[path |-> p, auth |-> h, qsid |-> NoKey, hsid |-> NoKey] :
            p \in {P_store, P_other}, h \in AuthHeaders}

Init ==
    /\ req = [r \in Requests |-> NoRequest]
    /\ nreq = 0
    /\ storage = <<>>
    /\ putLog = <<>>
    /\ uidCount = 0
    /\ lastRet = NoRetrieval
    /\ currentBearerToken = Null
    /\ fetched = <<>>
    /\ gen4 = NoCall
    /\ sandboxes = {}
    /\ sbx = NoSandboxCalls

-----------------------------------------------------------------------------
(* default.fetch: from the arrival of a request to its first await *)

\* the request as the router sees it once the token is extracted
Arrived(path, auth, qsid, hsid) ==
    [NoRequest EXCEPT !.path = path, !.auth = auth, !.qsid = qsid, !.hsid = hsid,
                      !.token = extractBearerToken(auth)]

\* the store call issued without awaiting it: the handler is invoked at once
storeNotAwaited(rq, sessionId, token, endpointType) ==
    [rq EXCEPT !.pc = "storing", !.sessionId = sessionId,
               !.target = ActorName(endpointType, sessionId),
               !.body = JsonStringify(token),
               !.storeCalls = rq.storeCalls + 1,
               !.handled = TRUE]

\* storeBearerTokenInDO up to its await: the actor addressed and the body sent
storeBearerTokenInDO(rq, sessionId, token, endpointType) ==
    [rq EXCEPT !.pc = "storing", !.sessionId = sessionId,
               !.target = ActorName(endpointType, sessionId),
               !.body = JsonStringify(token),
               !.storeCalls = rq.storeCalls + 1]

\* MyMCP.serveSSE("/sse").fetch(request, ...) or MyMCP.serve("/mcp").fetch(request, ...)
InvokeHandler(rq, n) ==
    [rq EXCEPT !.pc = "dispatching", !.handled = TRUE,
               !.handlerKey = HandlerSessionKey(rq.path, rq.qsid, rq.hsid, n)]

HandlerUids(rq) == IF HandlerAllocates(rq.path, rq.qsid, rq.hsid) THEN 1 ELSE 0

\* an unrecognized path: 404
NotFound(r, path, auth, qsid, hsid) ==
    /\ r = nreq + 1
    /\ ~Recognized(path)
    /\ req' = [req EXCEPT ![r] =
                 [Arrived(path, auth, qsid, hsid) EXCEPT !.pc = "rejected", !.status = 404]]
    /\ nreq' = r
    /\ UNCHANGED revisionVars
    /\ lastRet' = NoRetrieval
    /\ UNCHANGED <<storage, putLog, uidCount>>

\* a recognized path without an extractable token: 401
Unauthorized(r, path, auth, qsid, hsid) ==
    /\ r = nreq + 1
    /\ Recognized(path)
    /\ ~Truthy(extractBearerToken(auth))
    /\ req' = [req EXCEPT ![r] =
                 [Arrived(path, auth, qsid, hsid) EXCEPT
                     !.pc = "rejected", !.status = createUnauthorizedResponse]]
    /\ nreq' = r
    /\ UNCHANGED revisionVars
    /\ lastRet' = NoRetrieval
    /\ UNCHANGED <<storage, putLog, uidCount>>

\* a router that gives every connection a fresh id, whatever key it carries
RelayFresh(r, path, auth, qsid, hsid) ==
    LET rq == Arrived(path, auth, qsid, hsid)
        sessionId == ResolveSessionId(path, qsid, hsid, uidCount)
    IN /\ r = nreq + 1
       /\ Recognized(path)
       /\ Truthy(rq.token)
       /\ HasKey(sessionId)
       /\ req' = [req EXCEPT ![r] =
                    storeBearerTokenInDO(rq, newUniqueId(uidCount + 1), rq.token,
                                         EndpointType(path))]
       /\ uidCount' = uidCount + 1
       /\ nreq' = r
       /\ UNCHANGED revisionVars
       /\ lastRet' = NoRetrieval
       /\ UNCHANGED <<storage, putLog>>

\* a credentialed request for which a session key is resolved: the store call
\* is issued and the router awaits it
Relay(r, path, auth, qsid, hsid) ==
    LET rq == Arrived(path, auth, qsid, hsid)
        sessionId == ResolveSessionId(path, qsid, hsid, uidCount)
    IN /\ r = nreq + 1
       /\ Recognized(path)
       /\ Truthy(rq.token)
       /\ HasKey(sessionId)
       /\ req' = [req EXCEPT ![r] =
                    storeBearerTokenInDO(rq, sessionId, rq.token, EndpointType(path))]
       /\ uidCount' = uidCount + (IF ResolveAllocates(path, qsid, hsid) THEN 1 ELSE 0)
       /\ nreq' = r
       /\ UNCHANGED revisionVars
       /\ lastRet' = NoRetrieval
       /\ UNCHANGED <<storage, putLog>>

\* a credentialed request for which no session key is resolved goes to the
\* handler at once
DispatchUnrelayed(r, path, auth, qsid, hsid) ==
    LET rq == Arrived(path, auth, qsid, hsid) IN
    /\ r = nreq + 1
    /\ Recognized(path)
    /\ Truthy(rq.token)
    /\ ~HasKey(ResolveSessionId(path, qsid, hsid, uidCount))
    /\ req' = [req EXCEPT ![r] = InvokeHandler(rq, uidCount)]
    /\ uidCount' = uidCount + HandlerUids(rq)
    /\ nreq' = r
    /\ UNCHANGED revisionVars
    /\ lastRet' = NoRetrieval
    /\ UNCHANGED <<storage, putLog>>

-----------------------------------------------------------------------------
(* MyMCP.fetch on POST /store-bearer-token, inside the addressed actor *)

\* request methods a client may use
Methods == {"GET", "POST"}

\* a token a client puts into a request body of its own
TokX == <<"x">>

\* a test that takes any POST for a store request
IsAnyPost(pathname, method) == method = "POST"

\* url.pathname === "/store-bearer-token" && request.method === "POST"
IsStoreRequest(pathname, method) == pathname = P_store /\ method = "POST"

Append1(log, actor, r) ==
    [a \in DOMAIN log \cup {actor} |->
        IF a = actor THEN Append(IF a \in DOMAIN log THEN log[a] ELSE <<>>, r)
        ELSE log[a]]

\* an actor whose failing store has already written the token
MyMCP_fetchLateFailure(r, writeFails) ==
    /\ req[r].pc = "storing"
    /\ storage' = StoragePut(storage, req[r].target, JsonParse(req[r].body))
    /\ IF writeFails
       THEN /\ req' = [req EXCEPT ![r].pc = "stored", ![r].reply = 500]
            /\ UNCHANGED putLog
       ELSE /\ putLog' = Append1(putLog, req[r].target, r)
            /\ req' = [req EXCEPT ![r].pc = "stored", ![r].reply = 200]
    /\ UNCHANGED revisionVars
    /\ lastRet' = NoRetrieval
    /\ UNCHANGED <<nreq, uidCount>>

MyMCP_fetch(r, writeFails) ==
    /\ req[r].pc = "storing"
    /\ IsStoreRequest(P_store, "POST")
    /\ IF writeFails \/ JsonParse(req[r].body) = ParseError
       THEN /\ req' = [req EXCEPT ![r].pc = "stored", ![r].reply = 500]
            /\ UNCHANGED <<storage, putLog>>
       ELSE /\ storage' = StoragePut(storage, req[r].target, JsonParse(req[r].body))
            /\ putLog' = Append1(putLog, req[r].target, r)
            /\ req' = [req EXCEPT ![r].pc = "stored", ![r].reply = 200]
    /\ UNCHANGED revisionVars
    /\ lastRet' = NoRetrieval
    /\ UNCHANGED <<nreq, uidCount>>

-----------------------------------------------------------------------------
(* default.fetch after the await of the store call *)

\* the actor the handler runs the session of request r in
SessionActor(r) == HandlerActor(req[r].path, req[r].handlerKey)

\* doStub.fetch resolved, whatever the status of its response
StoreReturned(r) ==
    /\ req[r].pc = "stored"
    /\ req' = [req EXCEPT ![r] = InvokeHandler(req[r], uidCount)]
    /\ uidCount' = uidCount + HandlerUids(req[r])
    /\ UNCHANGED revisionVars
    /\ lastRet' = NoRetrieval
    /\ UNCHANGED <<nreq, storage, putLog>>

\* a catch that logs the failure and goes on to the handler
StoreThrewSwallowed(r) ==
    /\ req[r].pc \in {"storing", "stored"}
    /\ req' = [req EXCEPT ![r] = [InvokeHandler(req[r], uidCount) EXCEPT !.threw = TRUE]]
    /\ UNCHANGED revisionVars
    /\ lastRet' = NoRetrieval
    /\ UNCHANGED <<nreq, storage, putLog, uidCount>>

\* doStub.fetch rejected (before or after the actor ran): the catch answers 500
StoreThrew(r) ==
    /\ req[r].pc \in {"storing", "stored"}
    /\ req' = [req EXCEPT ![r].pc = "rejected", ![r].status = 500, ![r].threw = TRUE]
    /\ UNCHANGED revisionVars
    /\ lastRet' = NoRetrieval
    /\ UNCHANGED <<nreq, storage, putLog, uidCount>>

\* statuses the connection-style handler answers with, among them: a stream
\* opened, a message accepted, a request it refuses
HandlerStatuses == {200, 202, 400}

\* a handler whose return sends the request back to the relay
HandlerRelaysAgain(r, method, status) ==
    /\ req[r].pc = "dispatching"
    /\ req' = [req EXCEPT ![r].pc = IF req[r].storeCalls = 1 THEN "storing" ELSE "served",
                          ![r].status = status, ![r].method = method]
    /\ UNCHANGED revisionVars
    /\ lastRet' = NoRetrieval
    /\ UNCHANGED <<nreq, storage, putLog, uidCount>>

\* the handler passes the client's request, with its own path, method and
\* body, to MyMCP.fetch of the session actor, which stores from it only if it
\* is a store request and gives it to super.fetch otherwise; the handler's
\* response, whatever its status, is the router's response
HandlerReturned(r, method, status) ==
    /\ req[r].pc = "dispatching"
    /\ req' = [req EXCEPT ![r].pc = "served", ![r].status = status, ![r].method = method]
    /\ IF IsStoreRequest(req[r].path, method) /\ SessionActor(r) # NoKey
       THEN storage' = StoragePut(storage, SessionActor(r), JsonParse(JsonStringify(TokX)))
       ELSE UNCHANGED storage
    /\ UNCHANGED revisionVars
    /\ lastRet' = NoRetrieval
    /\ UNCHANGED <<nreq, putLog, uidCount>>

-----------------------------------------------------------------------------
(* A tool executing inside the session request r belongs to *)

ToolCall(r, readFails) ==
    /\ req[r].handled
    /\ req[r].handlerKey # NoKey
    /\ UNCHANGED revisionVars
    /\ lastRet' = [r |-> r, readOk |-> ~readFails,
                   value |-> getBearerToken(storage, SessionActor(r), readFails)]
    /\ UNCHANGED <<req, nreq, storage, putLog, uidCount>>

-----------------------------------------------------------------------------
(* The tools registerAllTools registers, each given getBearerToken *)

Tools == {"generate_svg", "generate_image", "generate_video_from_image",
          "generate_video_seedance_pro"}

\* a null member of a result object
JsNull == "<null>"

\* the request parameters a failure result echoes in its metadata
Inputs == "<inputs>"

\* recraft-svg.ts has no tool_name constant and puts none in its results
HasToolName(tool) == tool # "generate_svg"

\* the member that holds the output location
OutputField(tool) == IF tool = "generate_svg" THEN "svg_url" ELSE "filepath"

MissingKeyMessage ==
    "Replicate API key not available. Please provide a valid Bearer token in the Authorization header."

\* the fixed part of the message of a provider failure
FailureMessage(tool) ==
    CASE tool = "generate_svg" -> "Error generating SVG: "
      [] tool = "generate_image" -> "Error generating image: "
      [] tool = "generate_video_from_image" -> "Error generating video: "
      [] OTHER -> "Error generating video with SeedanceV1-Pro: "

\* the object an error result serialises into its text content
ErrorText(tool, code, message, metadata) ==
    [f \in {"status", "error_code", "message", OutputField(tool), "metadata"}
           \cup (IF HasToolName(tool) THEN {"tool_name"} ELSE {}) |->
        CASE f = "status" -> "error"
          [] f = "error_code" -> code
          [] f = "message" -> message
          [] f = "metadata" -> metadata
          [] f = "tool_name" -> tool
          [] OTHER -> JsNull]

\* the object a success result serialises (the output is the provider's)
SuccessText(tool) ==
    [f \in {"status", "filepath", "message", "metadata"}
           \cup (IF HasToolName(tool) THEN {"tool_name"} ELSE {}) |->
        CASE f = "status" -> "success"
          [] f = "tool_name" -> tool
          [] OTHER -> "<output>"]

\* a tool that goes to the provider whatever the retrieval returned
ToolResultUnchecked(tool, apiKey, providerFails) ==
    IF providerFails \/ ~Truthy(apiKey)
    THEN [text |-> ErrorText(tool, "GENERATION_FAILED", FailureMessage(tool), Inputs),
          isError |-> TRUE, providerCalled |-> TRUE, providerAuth |-> apiKey]
    ELSE [text |-> SuccessText(tool),
          isError |-> FALSE, providerCalled |-> TRUE, providerAuth |-> apiKey]

\* the tool handler after `const apiKey = await getBearerToken()`: the result
\* it returns, and whether and with which auth replicate.run was called
ToolResult(tool, apiKey, providerFails) ==
    IF ~Truthy(apiKey)
    THEN [text |-> ErrorText(tool, "MISSING_API_KEY", MissingKeyMessage, JsNull),
          isError |-> TRUE, providerCalled |-> FALSE, providerAuth |-> Null]
    ELSE IF providerFails
    THEN [text |-> ErrorText(tool, "GENERATION_FAILED", FailureMessage(tool), Inputs),
          isError |-> TRUE, providerCalled |-> TRUE, providerAuth |-> apiKey]
    ELSE [text |-> SuccessText(tool),
          isError |-> FALSE, providerCalled |-> TRUE, providerAuth |-> apiKey]

\* a tool invocation whose retrieval takes the credential out of storage
ToolExecConsuming(r, tool, readFails, providerFails) ==
    LET apiKey == getBearerToken(storage, SessionActor(r), readFails) IN
    /\ req[r].handled
    /\ req[r].handlerKey # NoKey
    /\ UNCHANGED revisionVars
    /\ lastRet' = [r |-> r, readOk |-> ~readFails, value |-> apiKey,
                   tool |-> tool, result |-> ToolResult(tool, apiKey, providerFails)]
    /\ storage' = [a \in DOMAIN storage \ {SessionActor(r)} |-> storage[a]]
    /\ UNCHANGED <<req, nreq, putLog, uidCount>>

\* a whole tool invocation inside the session of request r
ToolExec(r, tool, readFails, providerFails) ==
    LET apiKey == getBearerToken(storage, SessionActor(r), readFails) IN
    /\ req[r].handled
    /\ req[r].handlerKey # NoKey
    /\ UNCHANGED revisionVars
    /\ lastRet' = [r |-> r, readOk |-> ~readFails, value |-> apiKey,
                   tool |-> tool, result |-> ToolResult(tool, apiKey, providerFails)]
    /\ UNCHANGED <<req, nreq, storage, putLog, uidCount>>

-----------------------------------------------------------------------------

Next ==
    \/ \E r \in Requests, c \in ClientRequests :
            NotFound(r, c.path, c.auth, c.qsid, c.hsid)
    \/ \E r \in Requests, c \in ClientRequests :
            Unauthorized(r, c.path, c.auth, c.qsid, c.hsid)
    \/ \E r \in Requests, c \in ClientRequests :
            Relay(r, c.path, c.auth, c.qsid, c.hsid)
    \/ \E r \in Requests, c \in ClientRequests :
            DispatchUnrelayed(r, c.path, c.auth, c.qsid, c.hsid)
    \/ \E r \in Requests, writeFails \in BOOLEAN : MyMCP_fetch(r, writeFails)
    \/ \E r \in Requests : StoreReturned(r)
    \/ \E r \in Requests : StoreThrew(r)
    \/ \E r \in Requests, method \in Methods, status \in HandlerStatuses :
            HandlerReturned(r, method, status)
    \/ \E r \in Requests, readFails \in BOOLEAN : ToolCall(r, readFails)

Spec == Init /\ [][Next]_vars

\* the router with its own steps scheduled: once an await of default.fetch is
\* resolved the router goes on.  Nothing makes the actor answer the store
\* call or makes the call reject, and default.fetch sets no timer on it
LiveSpec ==
    /\ Init
    /\ [][Next]_vars
    /\ \A r \in Requests : WF_vars(StoreReturned(r))
    /\ \A r \in Requests : WF_vars(\E method \in Methods, status \in HandlerStatuses :
                                    HandlerReturned(r, method, status))

\* the router, with the actor answering every store call it is sent and the
\* handler returning
FairSpec ==
    /\ Init
    /\ [][Next]_vars
    /\ \A r \in Requests : WF_vars(\E writeFails \in BOOLEAN : MyMCP_fetch(r, writeFails))
    /\ \A r \in Requests : WF_vars(StoreReturned(r))
    /\ \A r \in Requests : WF_vars(\E method \in Methods, status \in HandlerStatuses :
                                    HandlerReturned(r, method, status))

-----------------------------------------------------------------------------
(* The gateway with tools running in its sessions.  Clients are credentialed *)
(* and name their session, so that what the tools do is what varies.         *)

ToolRequests ==
    {[path |-> P_sse, auth |-> h, qsid |-> S1, hsid |-> NoKey] : h \in {H_A, H_B}}
    \cup {[path |-> P_msg, auth |-> h, qsid |-> S1, hsid |-> NoKey] : h \in {H_A, H_B}}
    \cup {[path |-> P_mcp, auth |-> h, qsid |-> NoKey, hsid |-> S1] : h \in {H_A, H_B}}

ToolNext ==
    \/ \E r \in Requests, c \in ToolRequests :
            Relay(r, c.path, c.auth, c.qsid, c.hsid)
    \/ \E r \in Requests, c \in ToolRequests :
            DispatchUnrelayed(r, c.path, c.auth, c.qsid, c.hsid)
    \/ \E r \in Requests, writeFails \in BOOLEAN : MyMCP_fetch(r, writeFails)
    \/ \E r \in Requests : StoreReturned(r)
    \/ \E r \in Requests : StoreThrew(r)
    \/ \E r \in Requests, method \in Methods, status \in HandlerStatuses :
            HandlerReturned(r, method, status)
    \/ \E r \in Requests, tool \in Tools, readFails, providerFails \in BOOLEAN :
            ToolExec(r, tool, readFails, providerFails)

ToolSpec == Init /\ [][ToolNext]_vars

-----------------------------------------------------------------------------
(* The revision of the actor that caches the token in an instance field:    *)
(* MyMCP.fetch sets this.currentBearerToken from the Authorization header   *)
(* of each request it handles.                                              *)

\* requests the actor handles in one behaviour
MaxFetch == 3

\* values of request.headers.get("Authorization"): none, the empty string,
\* two bearer headers and one of another scheme
CacheHeaders == {Null, <<>>, H_A, H_B, H_basic}

\* the field after a request: `if (authHeader)` guards the assignment of
\* `match ? match[1] : undefined`
CachedAfter(current, authHeader) ==
    IF Truthy(authHeader) THEN BearerMatch(authHeader) ELSE current

CachingFetch(authHeader) ==
    /\ Len(fetched) < MaxFetch
    /\ currentBearerToken' = CachedAfter(currentBearerToken, authHeader)
    /\ fetched' = Append(fetched, authHeader)
    /\ UNCHANGED <<gatewayVars, gen4, sandboxes, sbx>>

CacheNext == \E authHeader \in CacheHeaders : CachingFetch(authHeader)

CacheSpec == Init /\ [][CacheNext]_vars

-----------------------------------------------------------------------------
(* generate_gen4_image: a tool with optional reference images and tags      *)

\* .max(3) of the schemas of reference_images and reference_tags
MaxRefs == 3

\* an optional array argument: undefined, or up to MaxRefs items
RefArrays(item) == {Null} \cup {[i \in 1..n |-> item] : n \in 0..MaxRefs}

\* an array given to the provider only `if (a && a.length > 0)`
SentToProvider(a) == IF a # Null /\ Len(a) > 0 THEN a ELSE Null

\* the tool handler after `const apiKey = await getBearerToken()`
Gen4Result(apiKey, reference_images, reference_tags, providerFails) ==
    LET tool == "generate_gen4_image"
        NotCalled(code, message, metadata) ==
            [text |-> ErrorText(tool, code, message, metadata), isError |-> TRUE,
             providerCalled |-> FALSE, providerAuth |-> Null,
             sentImages |-> Null, sentTags |-> Null]
        Called(text, isError) ==
            [text |-> text, isError |-> isError,
             providerCalled |-> TRUE, providerAuth |-> apiKey,
             sentImages |-> SentToProvider(reference_images),
             sentTags |-> SentToProvider(reference_tags)]
    IN IF ~Truthy(apiKey)
       THEN NotCalled("MISSING_API_KEY", MissingKeyMessage, JsNull)
       ELSE IF /\ reference_images # Null /\ reference_tags # Null
               /\ Len(reference_images) # Len(reference_tags)
       THEN NotCalled("MISMATCHED_ARRAYS",
                      "Number of reference_images must match number of reference_tags. Each image should have a corresponding tag.",
                      "<counts>")
       ELSE IF providerFails
       THEN Called(ErrorText(tool, "GENERATION_FAILED",
                             "Error generating Gen-4 image: ", Inputs), TRUE)
       ELSE Called(SuccessText(tool), FALSE)

Gen4Call(apiKey, reference_images, reference_tags, providerFails) ==
    /\ gen4' = [called |-> TRUE, apiKey |-> apiKey,
                reference_images |-> reference_images,
                reference_tags |-> reference_tags,
                providerFails |-> providerFails,
                result |-> Gen4Result(apiKey, reference_images, reference_tags,
                                      providerFails)]
    /\ UNCHANGED <<gatewayVars, currentBearerToken, fetched, sandboxes, sbx>>

Gen4Next ==
    \E apiKey \in {Null, TokA, TokB},
       reference_images \in RefArrays("https://img"),
       reference_tags \in RefArrays("tag"),
       providerFails \in BOOLEAN :
        Gen4Call(apiKey, reference_images, reference_tags, providerFails)

Gen4Spec == Init /\ [][Gen4Next]_vars

-----------------------------------------------------------------------------
(* The sandbox revision of the actor: runCode, createSandbox and             *)
(* closeSandbox over this.sandboxes.  A sandbox id is crypto.randomUUID(),   *)
(* here the next of a counter; 0 stands for no id.                           *)

\* sandboxes created in one behaviour
MaxSandboxes == 2

\* tool calls returning in one behaviour
MaxCalls == 5

\* ids a caller may pass: those a tool has returned to it, and one that no
\* sandbox ever gets
SandboxIds == sbx.returned \cup {MaxSandboxes + 1}

\* the result a tool call returns
Returns(op, id, success, error) ==
    [sbx EXCEPT !.calls = sbx.calls + 1,
                !.last = [op |-> op, id |-> id, success |-> success, error |-> error]]

RemoveAt(seq, i) == SubSeq(seq, 1, i - 1) \o SubSeq(seq, i + 1, Len(seq))

\* tool calls that have not returned
Pending == Len(sbx.closing) + Len(sbx.running)

\* createSandbox from the return of `await Sandbox.create(...)`: nothing
\* before it reads or writes the map
createSandbox(createFails) ==
    /\ sbx.calls + Pending < MaxCalls
    /\ IF createFails
       THEN /\ sbx' = Returns("createSandbox", 0, FALSE, "<create error>")
            /\ UNCHANGED sandboxes
       ELSE /\ sbx.created < MaxSandboxes
            /\ sandboxes' = sandboxes \cup {sbx.created + 1}
            /\ sbx' = [Returns("createSandbox", sbx.created + 1, TRUE, "") EXCEPT
                          !.created = sbx.created + 1,
                          !.returned = sbx.returned \cup {sbx.created + 1}]
    /\ UNCHANGED <<gatewayVars, currentBearerToken, fetched, gen4>>

\* runCode up to its first await: `await sandbox.runCode(code)` with the
\* sandbox of a registered id, `await Sandbox.create(...)` otherwise.
\* sandboxId 0: the argument is omitted
runCode(sandboxId) ==
    LET reuse == sandboxId # 0 /\ sandboxId \in sandboxes IN
    /\ sbx.calls + Pending < MaxCalls
    /\ sbx' = [sbx EXCEPT !.running =
                  Append(sbx.running,
                         IF reuse THEN [stage |-> "running", id |-> sandboxId]
                         ELSE [stage |-> "creating", id |-> 0])]
    /\ UNCHANGED sandboxes
    /\ UNCHANGED <<gatewayVars, currentBearerToken, fetched, gen4>>

\* runCode from the return of `await Sandbox.create(...)` up to
\* `await sandbox.runCode(code)`
runCodeCreated(i, createFails) ==
    /\ i \in DOMAIN sbx.running
    /\ sbx.running[i].stage = "creating"
    /\ IF createFails
       THEN /\ sbx' = [Returns("runCode", 0, FALSE, "<create error>") EXCEPT
                         !.running = RemoveAt(sbx.running, i)]
            /\ UNCHANGED sandboxes
       ELSE /\ sbx.created < MaxSandboxes
            /\ sandboxes' = sandboxes \cup {sbx.created + 1}
            /\ sbx' = [sbx EXCEPT
                         !.created = sbx.created + 1,
                         !.running[i] = [stage |-> "running", id |-> sbx.created + 1]]
    /\ UNCHANGED <<gatewayVars, currentBearerToken, fetched, gen4>>

\* runCode from the return of `await sandbox.runCode(code)`
runCodeReturns(i, runFails) ==
    /\ i \in DOMAIN sbx.running
    /\ sbx.running[i].stage = "running"
    /\ LET id == sbx.running[i].id IN
       IF runFails
       THEN sbx' = [Returns("runCode", 0, FALSE, "<run error>") EXCEPT
                      !.running = RemoveAt(sbx.running, i)]
       ELSE sbx' = [Returns("runCode", id, TRUE, "") EXCEPT
                      !.running = RemoveAt(sbx.running, i),
                      !.returned = sbx.returned \cup {id}]
    /\ UNCHANGED sandboxes
    /\ UNCHANGED <<gatewayVars, currentBearerToken, fetched, gen4>>

\* closeSandbox up to `await sandbox.close()`
closeSandbox(sandboxId) ==
    /\ sbx.calls + Pending < MaxCalls
    /\ IF sandboxId \notin sandboxes
       THEN sbx' = Returns("closeSandbox", sandboxId, FALSE, "Sandbox not found")
       ELSE sbx' = [sbx EXCEPT !.closing = Append(sbx.closing, sandboxId)]
    /\ UNCHANGED sandboxes
    /\ UNCHANGED <<gatewayVars, currentBearerToken, fetched, gen4>>

\* a closeSandbox that takes the id out of the map before it closes
closeReturnsUnregistered(i, closeFails) ==
    LET sandboxId == sbx.closing[i] IN
    /\ i \in DOMAIN sbx.closing
    /\ sandboxes' = sandboxes \ {sandboxId}
    /\ IF closeFails
       THEN sbx' = [Returns("closeSandbox", sandboxId, FALSE, "<close error>") EXCEPT
                      !.closing = RemoveAt(sbx.closing, i)]
       ELSE sbx' = [Returns("closeSandbox", sandboxId, TRUE, "") EXCEPT
                      !.closing = RemoveAt(sbx.closing, i),
                      !.closed = sbx.closed \cup {sandboxId}]
    /\ UNCHANGED <<gatewayVars, currentBearerToken, fetched, gen4>>

\* closeSandbox from the return of `await sandbox.close()`
closeReturns(i, closeFails) ==
    LET sandboxId == sbx.closing[i] IN
    /\ i \in DOMAIN sbx.closing
    /\ IF closeFails
       THEN /\ sbx' = [Returns("closeSandbox", sandboxId, FALSE, "<close error>") EXCEPT
                         !.closing = RemoveAt(sbx.closing, i)]
            /\ UNCHANGED sandboxes
       ELSE /\ sandboxes' = sandboxes \ {sandboxId}
            /\ sbx' = [Returns("closeSandbox", sandboxId, TRUE, "") EXCEPT
                         !.closing = RemoveAt(sbx.closing, i),
                         !.closed = sbx.closed \cup {sandboxId}]
    /\ UNCHANGED <<gatewayVars, currentBearerToken, fetched, gen4>>

SandboxNext ==
    \/ \E createFails \in BOOLEAN : createSandbox(createFails)
    \/ \E sandboxId \in {0} \cup SandboxIds : runCode(sandboxId)
    \/ \E i \in 1..MaxCalls, createFails \in BOOLEAN : runCodeCreated(i, createFails)
    \/ \E i \in 1..MaxCalls, runFails \in BOOLEAN : runCodeReturns(i, runFails)
    \/ \E sandboxId \in SandboxIds : closeSandbox(sandboxId)
    \/ \E i \in 1..MaxCalls, closeFails \in BOOLEAN : closeReturns(i, closeFails)

SandboxSpec == Init /\ [][SandboxNext]_vars

-----------------------------------------------------------------------------
(* The gateway under requests that may hold a session key in the query, in   *)
(* the mcp-session-id header, in both or in neither, whatever their route.   *)

KeyedRequests ==
    {[path |-> p, auth |-> H_A, qsid |-> k, hsid |-> l] :
        p \in {P_sse, P_mcp, P_msg}, k \in {NoKey, S1, S2}, l \in {NoKey, S1, S2}}

ResolveNext ==
    \/ \E r \in Requests, c \in KeyedRequests :
            Relay(r, c.path, c.auth, c.qsid, c.hsid)
    \/ \E r \in Requests, c \in KeyedRequests :
            DispatchUnrelayed(r, c.path, c.auth, c.qsid, c.hsid)
    \/ \E r \in Requests, writeFails \in BOOLEAN : MyMCP_fetch(r, writeFails)
    \/ \E r \in Requests : StoreReturned(r)
    \/ \E r \in Requests : StoreThrew(r)
    \/ \E r \in Requests, method \in Methods, status \in HandlerStatuses :
            HandlerReturned(r, method, status)

ResolveSpec == Init /\ [][ResolveNext]_vars

-----------------------------------------------------------------------------
(* The gateway under Authorization headers of many shapes: a scheme, a       *)
(* separator and a rest, as request.headers.get("Authorization") returns     *)
(* them (a header value has no leading or trailing space or tab).           *)

Schemes ==
    {<<>>,
     <<"B", "e", "a", "r", "e", "r">>,
     <<"b", "e", "a", "r", "e", "r">>,
     <<"B", "E", "A", "R", "E", "R">>,
     <<"B", "e", "a", "r">>,
     <<"B", "a", "s", "i", "c">>,
     <<"B", "e", "a", "r", "e", "r", "x">>}

Separators == {<<>>, <<" ">>, <<" ", " ">>, <<"\t">>, <<"\f">>, <<NBSP, VT>>}

Rests == {<<>>, <<"a", "b", "c">>, <<"a", " ", "b">>, TokB, <<"\f">>}

\* the parts of the headers a client can send
HeaderParts ==
    {p \in Schemes \X Separators \X Rests :
        LET h == p[1] \o p[2] \o p[3] IN
        h # <<>> => (h[1] \notin HttpWhitespace /\ h[Len(h)] \notin HttpWhitespace)}

HeaderShapes == {p[1] \o p[2] \o p[3] : p \in HeaderParts} \cup {Null}

ExtractRequests ==
    {[path |-> P_msg, auth |-> h, qsid |-> S1, hsid |-> NoKey] : h \in HeaderShapes}

ExtractNext ==
    \/ \E r \in Requests, c \in ExtractRequests :
            Unauthorized(r, c.path, c.auth, c.qsid, c.hsid)
    \/ \E r \in Requests, c \in ExtractRequests :
            DispatchUnrelayed(r, c.path, c.auth, c.qsid, c.hsid)
    \/ \E r \in Requests, method \in Methods, status \in HandlerStatuses :
            HandlerReturned(r, method, status)

ExtractSpec == Init /\ [][ExtractNext]_vars

-----------------------------------------------------------------------------
(* Vocabulary of the properties *)

\* request r has arrived
HasArrived(r) == req[r].pc # "idle"

\* an Authorization header of the form "Bearer <token>", and one that is not
Credentialed(r) == req[r].auth \in {H_A, H_B}
Uncredentialed(r) == req[r].auth \in {Null, H_basic}

\* the token a credentialed request carries
Carried(r) == IF req[r].auth = H_A THEN TokA ELSE TokB

\* the router answered request r
Answered(r) == req[r].pc \in {"served", "rejected"}

\* a retrieval has just been made, inside the session of request r
Retrieved(r) == lastRet.r = r

-----------------------------------------------------------------------------
(* C1: a request to /sse, /sse/message or /mcp whose Authorization header is *)
(* absent or is not "Bearer <token>" is answered 401; no session key is      *)
(* resolved for it, no store call is issued and the handler is not invoked.  *)
C1_UnauthorizedRejected ==
    \A r \in Requests :
        (HasArrived(r) /\ Recognized(req[r].path) /\ Uncredentialed(r)) =>
            /\ req[r].pc = "rejected"
            /\ req[r].status = 401
            /\ req[r].sessionId = NoKey
            /\ req[r].storeCalls = 0
            /\ req[r].target = NoKey
            /\ ~req[r].handled

C1_Witness ==
    \E r \in Requests :
        /\ req[r].path = P_mcp /\ req[r].auth = H_basic /\ req[r].hsid = S1
        /\ req[r].status = 401

-----------------------------------------------------------------------------
(* C2: for a credentialed request on /sse or /mcp exactly one store call is  *)
(* issued, to the actor of the resolved key, and the handler is invoked only *)
(* once that call has returned, never while it is pending.                   *)
C2_StoreBeforeHandoff ==
    \A r \in Requests :
        (HasArrived(r) /\ req[r].path \in {P_sse, P_mcp} /\ Credentialed(r)) =>
            /\ req[r].storeCalls = 1
            /\ req[r].target = ActorName(EndpointType(req[r].path), req[r].sessionId)
            /\ req[r].pc = "storing" => ~req[r].handled
            /\ req[r].handled => req[r].reply # 0

C2_Witness ==
    \E r \in Requests :
        /\ req[r].path = P_sse /\ Credentialed(r)
        /\ req[r].handled /\ req[r].reply = 200 /\ req[r].storeCalls = 1

-----------------------------------------------------------------------------
(* C3: every credentialed request to a recognized route, /sse/message        *)
(* included, is relayed before it is dispatched: when the handler is invoked *)
(* a store call carrying the request's token has been issued, and has        *)
(* returned, to the actor of the session the request belongs to.             *)
C3_RelayBeforeDispatchOnEveryRoute ==
    \A r \in Requests :
        (Recognized(req[r].path) /\ Credentialed(r) /\ req[r].handled) =>
            /\ req[r].storeCalls >= 1
            /\ req[r].reply # 0
            /\ JsonParse(req[r].body) = Carried(r)
            /\ req[r].target = SessionActor(r)

-----------------------------------------------------------------------------
(* C4: when the actor answers the store call with a failure (its durable    *)
(* write failed), the router rejects the request with a server error and    *)
(* never invokes the handler for it.                                        *)
C4_StoreFailureRejects ==
    \A r \in Requests :
        req[r].reply = 500 =>
            /\ ~req[r].handled
            /\ Answered(r) => (req[r].pc = "rejected" /\ req[r].status = 500)

-----------------------------------------------------------------------------
(* C5: for a credentialed opening request without a session key (/sse       *)
(* without sessionId, /mcp without mcp-session-id) the actor the relay      *)
(* wrote to is the actor the handler runs the session in, so a tool call    *)
(* inside that session retrieves the request's token.                       *)
Keyless(r) ==
    \/ req[r].path = P_sse /\ req[r].qsid = NoKey
    \/ req[r].path = P_mcp /\ req[r].hsid = NoKey

C5_GeneratedKeyReachesSession ==
    \A r \in Requests :
        (Credentialed(r) /\ Keyless(r) /\ req[r].handled /\ req[r].reply = 200) =>
            /\ req[r].target = SessionActor(r)
            /\ (Retrieved(r) /\ lastRet.readOk /\ putLog[req[r].target] = <<r>>)
                    => lastRet.value = Carried(r)

-----------------------------------------------------------------------------
(* Vocabulary of the store and retrieval properties *)

\* the requests whose store the actor has durably written, in write order
Puts(actor) == IF actor \in DOMAIN putLog THEN putLog[actor] ELSE <<>>

\* the token of the latest completed store of the actor (Null: none yet)
LastStored(actor) ==
    IF Puts(actor) = <<>> THEN Null ELSE Carried(Puts(actor)[Len(Puts(actor))])

\* a store call addressed to the actor is issued and not yet handled there
StorePending(actor) ==
    \E q \in Requests : req[q].pc = "storing" /\ req[q].target = actor

\* a retrieval has just been made in the actor, and its durable read succeeded
RetrievedIn(actor) ==
    lastRet.r # 0 /\ SessionActor(lastRet.r) = actor /\ lastRet.readOk

-----------------------------------------------------------------------------
(* C6: two direct-call requests with the same mcp-session-id and different  *)
(* tokens, the store of the second completing after that of the first: both *)
(* relays address the same actor "streamable-http:<id>", the second store   *)
(* overwrites the first, and a retrieval after it returns the second token. *)
C6_SecondDirectStoreOverwrites ==
    \A r1, r2 \in Requests :
        ( /\ req[r1].path = P_mcp /\ req[r2].path = P_mcp
          /\ Credentialed(r1) /\ Credentialed(r2)
          /\ req[r1].hsid # NoKey /\ req[r1].hsid = req[r2].hsid
          /\ Carried(r1) # Carried(r2) ) =>
            LET actor == "streamable-http:" \o req[r1].hsid IN
            /\ req[r1].target = actor /\ req[r2].target = actor
            /\ Puts(actor) = <<r1, r2>> =>
                 /\ StorageGet(storage, actor) = Carried(r2)
                 /\ RetrievedIn(actor) => lastRet.value = Carried(r2)

C6_Witness ==
    /\ req[1].path = P_mcp /\ req[2].path = P_mcp
    /\ req[1].hsid = S1 /\ req[2].hsid = S1
    /\ req[1].auth = H_A /\ req[2].auth = H_B
    /\ Puts("streamable-http:S1") = <<1, 2>>
    /\ req[1].pc = "served"
    /\ RetrievedIn("streamable-http:S1") /\ lastRet.value = TokB

-----------------------------------------------------------------------------
(* C7: namespace isolation.  A streamed and a direct session with the same  *)
(* raw key are relayed to different actors, and what a retrieval in a       *)
(* session of one style returns was stored by a relay of that same style.   *)
StyleOf(path) == IF path = P_mcp THEN "direct" ELSE "streamed"

C7_NamespaceIsolation ==
    /\ \A r1, r2 \in Requests :
         ( /\ req[r1].storeCalls = 1 /\ req[r2].storeCalls = 1
           /\ req[r1].path = P_sse /\ req[r2].path = P_mcp
           /\ req[r1].sessionId = req[r2].sessionId ) =>
              req[r1].target # req[r2].target
    /\ \A r \in Requests :
         (Retrieved(r) /\ lastRet.value # Null) =>
            \E q \in Requests :
                /\ req[q].reply = 200
                /\ StyleOf(req[q].path) = StyleOf(req[r].path)
                /\ req[q].sessionId = req[r].handlerKey
                /\ Carried(q) = lastRet.value

C7_Witness ==
    \E r1, r2 \in Requests :
        /\ req[r1].path = P_sse /\ req[r2].path = P_mcp
        /\ req[r1].sessionId = S1 /\ req[r2].sessionId = S1
        /\ req[r1].reply = 200 /\ req[r2].reply = 200
        /\ Carried(r1) # Carried(r2)
        /\ Retrieved(r1) /\ lastRet.value = Carried(r1)

-----------------------------------------------------------------------------
(* C8: happens-before.  Once the store of a request has completed and the   *)
(* request has been handed off, a retrieval made later in the actor stored  *)
(* to returns that token or the token of a store completed there after it,  *)
(* whatever other sessions' requests, stores and retrievals interleave.     *)
PutIndex(actor, q) == CHOOSE i \in 1..Len(Puts(actor)) : Puts(actor)[i] = q

C8_StoreVisibleAfterHandoff ==
    \A q \in Requests :
        (req[q].handled /\ req[q].reply = 200 /\ RetrievedIn(req[q].target)) =>
            \E i \in PutIndex(req[q].target, q)..Len(Puts(req[q].target)) :
                lastRet.value = Carried(Puts(req[q].target)[i])

C8_Witness ==
    \E q, o \in Requests :
        /\ req[q].handled /\ req[q].reply = 200
        /\ req[o].reply = 200 /\ req[o].target # req[q].target
        /\ Carried(o) # Carried(q)
        /\ RetrievedIn(req[q].target) /\ lastRet.value = Carried(q)

-----------------------------------------------------------------------------
(* C9: concurrent stores to one session are last-write-wins.  At every      *)
(* instant the actor holds nothing or one of the tokens pushed to it, and   *)
(* once no store to it is pending it holds, and a retrieval returns, the    *)
(* token of the store that completed last.                                  *)
Pushed(actor) ==
    {Carried(q) : q \in {x \in Requests : req[x].storeCalls = 1 /\ req[x].target = actor}}

Actors == DOMAIN storage \cup {req[q].target : q \in {x \in Requests : req[x].storeCalls = 1}}

C9_LastWriteWins ==
    \A actor \in Actors :
        /\ StorageGet(storage, actor) \in {Null} \cup Pushed(actor)
        /\ Puts(actor) = <<>> => StorageGet(storage, actor) = Null
        /\ (Puts(actor) # <<>> /\ ~StorePending(actor)) =>
              /\ StorageGet(storage, actor) = LastStored(actor)
              /\ RetrievedIn(actor) => lastRet.value = LastStored(actor)

\* both stores were in flight together: the later request's was written first
C9_Witness ==
    \E actor \in Actors :
        /\ Puts(actor) = <<2, 1>>
        /\ Carried(1) # Carried(2)
        /\ ~StorePending(actor)
        /\ RetrievedIn(actor) /\ lastRet.value = Carried(1)

-----------------------------------------------------------------------------
(* C10: idempotent store.  A store of token T completing in an actor whose  *)
(* latest completed store was of the same T leaves the actor's storage as   *)
(* it was, and the actor then retrieves T.                                  *)
C10_IdempotentStore ==
    [][\A r \in Requests :
          ( /\ req[r].pc = "storing" /\ req'[r].pc = "stored" /\ req'[r].reply = 200
            /\ LastStored(req[r].target) = Carried(r) ) =>
              /\ storage' = storage
              /\ getBearerToken(storage', req[r].target, FALSE) = Carried(r)]_vars

C10_Witness ==
    \E actor \in Actors :
        /\ Len(Puts(actor)) >= 2
        /\ Carried(Puts(actor)[1]) = Carried(Puts(actor)[2])
        /\ RetrievedIn(actor) /\ lastRet.value = Carried(Puts(actor)[1])

-----------------------------------------------------------------------------
(* C11: absence is explicit.  A retrieval in an actor to which no store was *)
(* ever completed returns null, whether or not the durable read throws,     *)
(* and never the empty string.                                              *)
C11_AbsenceExplicit ==
    \A r \in Requests :
        (Retrieved(r) /\ Puts(SessionActor(r)) = <<>>) =>
            /\ lastRet.value = Null
            /\ lastRet.value # <<>>

C11_Witness ==
    \E r \in Requests :
        /\ Retrieved(r) /\ lastRet.readOk
        /\ Puts(SessionActor(r)) = <<>>
        /\ SessionActor(r) \notin DOMAIN storage
        /\ lastRet.value = Null

-----------------------------------------------------------------------------
(* C12: a request to a path other than /sse, /sse/message and /mcp is       *)
(* answered 404, with or without a credential, never 401; no session key is *)
(* resolved for it, no store call is issued and no handler is invoked.      *)
C12_UnrecognizedNotFound ==
    \A r \in Requests :
        (HasArrived(r) /\ req[r].path \notin {P_sse, P_msg, P_mcp}) =>
            /\ req[r].pc = "rejected"
            /\ req[r].status = 404
            /\ req[r].sessionId = NoKey
            /\ req[r].storeCalls = 0
            /\ ~req[r].handled

C12_Witness ==
    \E r1, r2 \in Requests :
        /\ req[r1].path = P_other /\ req[r1].auth = Null /\ req[r1].status = 404
        /\ req[r2].path = P_store /\ req[r2].auth = H_A /\ req[r2].status = 404

-----------------------------------------------------------------------------
(* C19: when the store call of a request raises, the router answers that    *)
(* request 500 and never invokes the connection-style handler for it.       *)
C19_StoreThrowRejects ==
    \A r \in Requests :
        req[r].threw =>
            /\ req[r].pc = "rejected"
            /\ req[r].status = 500
            /\ ~req[r].handled
            /\ req[r].handlerKey = NoKey

C19_Witness ==
    \E r \in Requests :
        /\ req[r].threw /\ req[r].status = 500
        /\ req[r].storeCalls = 1 /\ req[r].reply = 0

-----------------------------------------------------------------------------
(* C20: resolver determinism.  Two requests of the same connection style    *)
(* that carry the same session key are relayed to the same actor, in either *)
(* order, and the handler resolves that key to the same actor again.        *)

\* the session key the client put on request r, where its style looks for it
SuppliedKey(r) ==
    IF req[r].path = P_sse THEN req[r].qsid
    ELSE IF req[r].path = P_mcp THEN req[r].hsid
    ELSE NoKey

\* request r carried a key and was relayed
RelayedWithKey(r) == req[r].storeCalls = 1 /\ SuppliedKey(r) # NoKey

C20_ResolverDeterminism ==
    /\ \A r1, r2 \in Requests :
          (/\ RelayedWithKey(r1) /\ RelayedWithKey(r2)
           /\ req[r1].path = req[r2].path
           /\ SuppliedKey(r1) = SuppliedKey(r2))
          => req[r1].target = req[r2].target
    /\ \A r \in Requests :
          (RelayedWithKey(r) /\ req[r].handled) => SessionActor(r) = req[r].target

C20_Witness ==
    \E r1, r2 \in Requests :
        /\ r1 # r2
        /\ RelayedWithKey(r1) /\ RelayedWithKey(r2)
        /\ req[r1].path = P_mcp /\ req[r2].path = P_mcp
        /\ SuppliedKey(r1) = S1 /\ SuppliedKey(r2) = S1
        /\ req[r1].token # req[r2].token
        /\ req[r1].handled /\ req[r2].handled
        /\ req[r1].target = req[r2].target

-----------------------------------------------------------------------------
(* C14: the store operation is unreachable for clients.  Every step that    *)
(* changes an actor's stored credential is the gateway's relay of one       *)
(* credentialed /sse or /mcp request: it writes that request's bearer token *)
(* to the actor of the session key the router resolved for it, and nothing  *)
(* else.  No path, method or body a client sends writes anything.           *)

\* the step is the completion of the relay of request r
RelayWrites(r) ==
    LET a == (IF req[r].path = P_sse THEN "sse:" ELSE "streamable-http:")
             \o req[r].sessionId
    IN /\ req[r].path \in {P_sse, P_mcp} /\ Credentialed(r)
       /\ req[r].sessionId # NoKey
       /\ req[r].pc = "storing" /\ req'[r].pc = "stored"
       /\ DOMAIN storage' = DOMAIN storage \cup {a}
       /\ storage'[a] = Carried(r)
       /\ \A b \in DOMAIN storage \ {a} : storage'[b] = storage[b]

C14_StoreUnreachableForClients ==
    [][storage' # storage => \E r \in Requests : RelayWrites(r)]_vars

\* a client POSTed to /store-bearer-token with a bearer token, and another
\* POSTed to /sse/message of a session: nothing was written
C14_Witness ==
    \E r1, r2 \in Requests :
        /\ req[r1].path = P_store /\ req[r1].auth = H_A /\ req[r1].status = 404
        /\ req[r2].path = P_msg /\ req[r2].qsid = S1
        /\ req[r2].pc = "served" /\ req[r2].method = "POST"
        /\ storage = <<>>

-----------------------------------------------------------------------------
(* C15: whichever registered tool is invoked, when the retrieval yields     *)
(* null (nothing stored, or the read threw) the invocation returns an error *)
(* result with error_code MISSING_API_KEY and isError true, and the         *)
(* provider is not called.                                                  *)
C15_AbsentCredentialFailsTool ==
    \A r \in Requests :
        (Retrieved(r) /\ lastRet.value = Null) =>
            /\ lastRet.tool \in Tools
            /\ lastRet.result.isError
            /\ lastRet.result.text["status"] = "error"
            /\ lastRet.result.text["error_code"] = "MISSING_API_KEY"
            /\ ~lastRet.result.providerCalled

C15_Witness ==
    \E r \in Requests :
        /\ Retrieved(r) /\ lastRet.readOk /\ lastRet.value = Null
        /\ SessionActor(r) \notin DOMAIN storage
        /\ lastRet.tool = "generate_video_seedance_pro"
        /\ lastRet.result.text["error_code"] = "MISSING_API_KEY"

-----------------------------------------------------------------------------
(* C16: the error a tool reports when it finds no credential is not the     *)
(* provider-failure error, names the tool, and names the session (its key   *)
(* or its actor), for every registered tool.                                *)
C16_AbsentErrorNamesToolAndSession ==
    \A r \in Requests :
        (Retrieved(r) /\ lastRet.value = Null) =>
            LET t == lastRet.result.text IN
            /\ t["error_code"] # "GENERATION_FAILED"
            /\ "tool_name" \in DOMAIN t
            /\ t["tool_name"] = lastRet.tool
            /\ \E f \in DOMAIN t : t[f] \in {req[r].handlerKey, SessionActor(r)}

-----------------------------------------------------------------------------
(* C18: the credential is relayed verbatim.  What a tool retrieves in a     *)
(* session, and gives the provider as auth, is character for character what *)
(* follows "Bearer" and whitespace in the Authorization header of the       *)
(* request whose store completed last in that session's actor.              *)

\* header h is the scheme, whitespace, and then exactly v
HeaderCarries(h, v) ==
    /\ v # <<>> /\ v # Null
    /\ Len(h) > 6 + Len(v)
    /\ SubSeq(h, Len(h) - Len(v) + 1, Len(h)) = v
    /\ \A i \in 7..(Len(h) - Len(v)) : h[i] \in Whitespace
    /\ v[1] \notin Whitespace

C18_VerbatimRelay ==
    \A r \in Requests :
        (Retrieved(r) /\ lastRet.readOk /\ Puts(SessionActor(r)) # <<>>) =>
            LET log == Puts(SessionActor(r))
                q == log[Len(log)]
            IN /\ HeaderCarries(req[q].auth, lastRet.value)
               /\ lastRet.result.providerCalled
               /\ lastRet.result.providerAuth = lastRet.value

C18_Witness ==
    \E r, q \in Requests :
        /\ Retrieved(r) /\ lastRet.readOk
        /\ Puts(SessionActor(r)) = <<q>>
        /\ req[q].auth = H_A
        /\ lastRet.value = <<"t", "\t", "A">>
        /\ lastRet.result.providerAuth = <<"t", "\t", "A">>

-----------------------------------------------------------------------------
(* C17: extractBearerToken returns the rest of the header exactly when the  *)
(* header is the scheme "Bearer" in any letter case, whitespace, and a      *)
(* non-empty rest; for no header and for every other header it returns the  *)
(* not-present result, and the request is answered 401.                     *)

\* header h begins with the scheme in some letter case
BearerScheme(h) ==
    /\ Len(h) >= 6
    /\ h[1] \in {"B", "b"} /\ h[2] \in {"E", "e"} /\ h[3] \in {"A", "a"}
    /\ h[4] \in {"R", "r"} /\ h[5] \in {"E", "e"} /\ h[6] \in {"R", "r"}

\* the lengths of whitespace after the scheme that leave a non-empty token
Splits(h) ==
    IF BearerScheme(h)
    THEN {n \in 1..(Len(h) - 7) : \A i \in 7..(6 + n) : h[i] \in Whitespace}
    ELSE {}

\* what the contract gives for header h: the token after all the whitespace
\* that leaves one
Contract(h) ==
    IF Splits(h) = {} THEN Null
    ELSE LET n == CHOOSE m \in Splits(h) : \A k \in Splits(h) : k <= m
         IN SubSeq(h, 7 + n, Len(h))

C17_ExtractContract ==
    \A r \in Requests :
        HasArrived(r) =>
            /\ req[r].auth = Null => req[r].token = Null
            /\ req[r].auth # Null => req[r].token = Contract(req[r].auth)
            /\ req[r].token = Null <=> (req[r].pc = "rejected" /\ req[r].status = 401)

C17_Witness ==
    \E r1, r2 \in Requests :
        /\ req[r1].auth = <<"B", "E", "A", "R", "E", "R", NBSP, VT, "a", " ", "b">>
        /\ req[r1].token = <<"a", " ", "b">>
        /\ req[r2].auth = <<"B", "e", "a", "r", " ", "a", "b", "c">>
        /\ req[r2].token = Null /\ req[r2].status = 401

-----------------------------------------------------------------------------
(* C13: no request stays in the relaying state forever.  A request whose    *)
(* store call is pending eventually either has it completed or is rejected  *)
(* by the router, and while the call is pending it is not handed off.       *)
C13_RelayEventuallyEnds ==
    \A r \in Requests :
        (req[r].pc = "storing") ~> (req[r].reply # 0 \/ req[r].pc = "rejected")

-----------------------------------------------------------------------------
(* C21: the router reads the session key only where the style keeps it: the *)
(* sessionId query parameter on /sse, the mcp-session-id header on /mcp.    *)
(* A key in the other location is ignored, and when the style's own         *)
(* location is empty the key is a generated one.                            *)

\* a key the namespace generated, which is none a client sent
Generated(k) == k # NoKey /\ k \notin {S1, S2}

C21_KeyFromStyleLocation ==
    \A r \in Requests :
        /\ (HasArrived(r) /\ req[r].path = P_sse) =>
              IF req[r].qsid # NoKey THEN req[r].sessionId = req[r].qsid
              ELSE Generated(req[r].sessionId)
        /\ (HasArrived(r) /\ req[r].path = P_mcp) =>
              IF req[r].hsid # NoKey THEN req[r].sessionId = req[r].hsid
              ELSE Generated(req[r].sessionId)

C21_Witness ==
    \E r1, r2 \in Requests :
        /\ req[r1].path = P_sse /\ req[r1].qsid = NoKey /\ req[r1].hsid = S1
        /\ Generated(req[r1].sessionId)
        /\ req[r2].path = P_mcp /\ req[r2].qsid = S1 /\ req[r2].hsid = S2
        /\ req[r2].sessionId = S2

-----------------------------------------------------------------------------
(* C22: the key generated for a request that supplies none differs from     *)
(* every session key in use, so the store of such a request goes to an      *)
(* actor that no other request stores to or runs its session in: it never   *)
(* overwrites the credential of an existing session.                        *)
C22_GeneratedKeyIsFresh ==
    \A r \in Requests :
        (Keyless(r) /\ req[r].storeCalls = 1) =>
            /\ \A q \in Requests \ {r} :
                  /\ req[q].sessionId # req[r].sessionId
                  /\ req[q].handlerKey # req[r].sessionId
                  /\ req[q].qsid # req[r].sessionId
                  /\ req[q].hsid # req[r].sessionId
                  /\ req[q].target # req[r].target
                  /\ SessionActor(q) # req[r].target
            /\ Puts(req[r].target) \in {<<>>, <<r>>}

\* a session holds a credential, a later keyless request of the same style
\* has stored its own, and the first is still there
C22_Witness ==
    \E q, r \in Requests :
        /\ q < r
        /\ req[q].path = P_sse /\ req[q].qsid = S1 /\ req[q].auth = H_A
        /\ req[r].path = P_sse /\ Keyless(r) /\ req[r].auth = H_B
        /\ req[r].reply = 200
        /\ Puts(req[q].target) = <<q>> /\ Puts(req[r].target) = <<r>>
        /\ storage[req[q].target] = TokA

-----------------------------------------------------------------------------
(* C23: the credential an actor holds changes only in a step in which that  *)
(* actor handles a store call and its write succeeds.  Retrievals, tool     *)
(* executions and the other requests the actor handles leave it as it is,   *)
(* so a retrieval that follows another in the same actor, with no store in  *)
(* between, returns the same value when both reads succeed.                 *)

\* the step is a successful store handled by actor a
StoredIn(a) ==
    \E q \in Requests :
        /\ req[q].target = a
        /\ req[q].pc = "storing" /\ req'[q].pc = "stored" /\ req'[q].reply = 200

\* the step is a retrieval that directly follows a retrieval
RetrievalAfterRetrieval == lastRet.r # 0 /\ lastRet'.r # 0

C23_OnlyStoreChangesCredential ==
    [][ /\ \A a \in DOMAIN storage \cup DOMAIN storage' :
              StorageGet(storage', a) # StorageGet(storage, a) => StoredIn(a)
        /\ RetrievalAfterRetrieval => storage' = storage
        /\ ( /\ RetrievalAfterRetrieval
             /\ SessionActor(lastRet.r) = SessionActor(lastRet'.r)
             /\ lastRet.readOk /\ lastRet'.readOk )
           => lastRet'.value = lastRet.value ]_vars

C23_Witness ==
    \E r \in Requests :
        /\ Retrieved(r) /\ lastRet.readOk
        /\ lastRet.value = TokA
        /\ lastRet.result.providerCalled
        /\ storage[SessionActor(r)] = TokA
        /\ req[r].pc = "served"

-----------------------------------------------------------------------------
(* C24: session isolation.  A step in which one actor handles a store call  *)
(* leaves what every other actor holds, of either style, as it was, however *)
(* the requests in progress interleave.                                     *)
C24_StoreLeavesOtherActors ==
    [][ \A r \in Requests :
          (req[r].pc = "storing" /\ req'[r].pc = "stored") =>
              \A a \in (DOMAIN storage \cup DOMAIN storage') \ {req[r].target} :
                  /\ a \in DOMAIN storage /\ a \in DOMAIN storage'
                  /\ storage'[a] = storage[a] ]_vars

\* two sessions with the same key, one of each style, hold different
\* credentials; the request that arrived second had its store completed while
\* the first was still in progress
C24_Witness ==
    \E r1, r2 \in Requests :
        /\ r1 < r2
        /\ req[r1].path = P_sse /\ req[r1].qsid = S1 /\ req[r1].auth = H_A
        /\ req[r2].path = P_mcp /\ req[r2].hsid = S1 /\ req[r2].auth = H_B
        /\ req[r1].pc = "stored" /\ req[r2].pc = "served"
        /\ storage[req[r1].target] = TokA
        /\ storage[req[r2].target] = TokB

-----------------------------------------------------------------------------
(* C25: when the store call and the handler return, every request that has  *)
(* arrived is eventually answered, served or rejected.  On the way it only  *)
(* moves forward through received, relaying, dispatching, answered; once    *)
(* answered it takes no further step and its outcome stays the one it got.  *)

\* how far a request is: received, relaying, dispatching, answered
Stage(p) ==
    CASE p = "idle" -> 0
      [] p \in {"storing", "stored"} -> 1
      [] p = "dispatching" -> 2
      [] OTHER -> 3

C25_EveryRequestTerminates ==
    /\ \A r \in Requests : HasArrived(r) ~> Answered(r)
    /\ [][ \A r \in Requests :
              /\ Stage(req[r].pc) <= Stage(req'[r].pc)
              /\ (req[r].pc = "stored") => req'[r].pc # "storing"
              /\ Answered(r) => req'[r] = req[r] ]_vars
    /\ [](\A r \in Requests :
              /\ req[r].pc = "served" => req[r].status \in HandlerStatuses
              /\ req[r].pc = "rejected" => req[r].status \in {401, 404, 500}
              /\ req[r].status # 0 => Answered(r))

C25_Witness ==
    \E r1, r2 \in Requests :
        /\ req[r1].pc = "served" /\ req[r1].storeCalls = 1 /\ req[r1].reply = 200
        /\ req[r1].status = 202
        /\ req[r2].pc = "rejected" /\ req[r2].threw /\ req[r2].reply = 200

-----------------------------------------------------------------------------
(* C26: a store call that fails inside the actor (its try block throws, on  *)
(* the body or on the durable write) is answered 500 and leaves what the    *)
(* actor holds as it was: a later retrieval returns the token of the last   *)
(* store that succeeded there, or null when none did.                       *)

\* the step is the actor failing the store call of request r
StoreFailedStep(r) ==
    req[r].pc = "storing" /\ req'[r].pc = "stored" /\ req'[r].reply # 200

\* the stores of the actor that were answered 200, oldest first
RECURSIVE SucceededIn(_, _)
SucceededIn(actor, n) ==
    IF n = 0 THEN <<>>
    ELSE SucceededIn(actor, n - 1) \o
         (IF n \in DOMAIN Puts(actor) /\ req[Puts(actor)[n]].reply = 200
          THEN <<Puts(actor)[n]>> ELSE <<>>)

C26_FailedStoreKeepsCredential ==
    /\ [][ \A r \in Requests :
              StoreFailedStep(r) =>
                  /\ req'[r].reply = 500
                  /\ storage' = storage ]_vars
    /\ [](\A r \in Requests :
              (Retrieved(r) /\ lastRet.readOk) =>
                  LET a == SessionActor(r)
                      ok == SucceededIn(a, Len(Puts(a)))
                      failed == {q \in Requests : req[q].target = a /\ req[q].reply = 500}
                  IN /\ \A q \in failed : \A i \in DOMAIN ok : ok[i] # q
                     /\ lastRet.value =
                          IF ok = <<>> THEN Null ELSE req[ok[Len(ok)]].token)

\* one store succeeded in an actor, a later one with another token failed,
\* and a retrieval there returns the first token
C26_Witness ==
    \E q, r \in Requests :
        /\ req[q].target = req[r].target /\ q # r
        /\ req[q].reply = 200 /\ req[q].auth = H_A
        /\ req[r].reply = 500 /\ req[r].auth = H_B
        /\ lastRet.r = r /\ lastRet.readOk
        /\ SessionActor(r) = req[r].target
        /\ lastRet.value = TokA

-----------------------------------------------------------------------------
(* C27: a retrieval whose durable read fails returns null, also in an actor *)
(* that holds a stored credential; the tool then returns the                *)
(* MISSING_API_KEY error, with the same content as in a session that never  *)
(* got a credential, and does not call the provider.                        *)
C27_ReadFailureIsAbsence ==
    \A r \in Requests :
        (Retrieved(r) /\ ~lastRet.readOk) =>
            LET t == lastRet.result.text IN
            /\ lastRet.value = Null
            /\ lastRet.result.isError
            /\ ~lastRet.result.providerCalled
            /\ t["error_code"] = "MISSING_API_KEY"
            /\ t["message"] = MissingKeyMessage
            /\ \A f \in DOMAIN t \ {"error_code", "message"} :
                  t[f] \in {"error", JsNull, lastRet.tool}

C27_Witness ==
    \E r \in Requests :
        /\ Retrieved(r) /\ ~lastRet.readOk
        /\ SessionActor(r) \in DOMAIN storage
        /\ storage[SessionActor(r)] = TokA
        /\ req[r].reply = 200
        /\ lastRet.value = Null
        /\ lastRet.result.text["error_code"] = "MISSING_API_KEY"

-----------------------------------------------------------------------------
(* C28: in the caching revision the cached token is that of the most recent *)
(* request that carried an Authorization header: the header's token when it *)
(* is "Bearer <token>", unset when it is anything else or when no request   *)
(* carried one.  A request without the header leaves the cache as it was.   *)

\* the requests handled so far that carried an Authorization header
Carrying == {i \in DOMAIN fetched : fetched[i] # Null}

\* the header of the most recent of them
LastCarried == fetched[CHOOSE i \in Carrying : \A j \in Carrying : j <= i]

C28_CacheFollowsLastHeader ==
    currentBearerToken =
        IF Carrying = {} THEN Null
        ELSE IF LastCarried = H_A THEN TokA
        ELSE IF LastCarried = H_B THEN TokB
        ELSE Null

-----------------------------------------------------------------------------
(* C29: generate_gen4_image calls the provider only when there are as many  *)
(* reference tags as reference images, an array that is not supplied        *)
(* counting as none; with a credential, every mismatch yields the           *)
(* MISMATCHED_ARRAYS error and no provider call.                            *)

\* how many items an optional array argument supplies
Count(a) == IF a = Null THEN 0 ELSE Len(a)

C29_MismatchNeverReachesProvider ==
    gen4.called =>
        LET mismatch == Count(gen4.reference_images) # Count(gen4.reference_tags) IN
        /\ gen4.result.providerCalled => ~mismatch
        /\ (mismatch /\ gen4.apiKey # Null) =>
              /\ gen4.result.text["error_code"] = "MISMATCHED_ARRAYS"
              /\ gen4.result.isError

-----------------------------------------------------------------------------
(* C30: in the sandbox revision an id that createSandbox or runCode has     *)
(* returned is in the sandbox map until a closeSandbox for it succeeds, and *)
(* is not in the map after that.  closeSandbox of an id not in the map      *)
(* fails with 'Sandbox not found' and leaves the map as it was; a           *)
(* closeSandbox whose close fails leaves the id in the map.                 *)

\* the step is the return of a closeSandbox call
CloseReturned == sbx'.calls = sbx.calls + 1 /\ sbx'.last.op = "closeSandbox"

\* the step is a closeSandbox call finding its id in the map and going on to
\* close the sandbox
ClosePassedCheck == Len(sbx'.closing) = Len(sbx.closing) + 1

C30_SandboxRegisteredUntilClosed ==
    /\ [](/\ (sbx.returned \ sbx.closed) \subseteq sandboxes
          /\ sbx.closed \cap sandboxes = {})
    /\ [][ /\ ClosePassedCheck =>
                 /\ sbx'.closing[Len(sbx'.closing)] \in sandboxes
                 /\ sandboxes' = sandboxes
           /\ (CloseReturned /\ sbx'.closing = sbx.closing) =>
                 /\ sbx'.last.id \notin sandboxes
                 /\ ~sbx'.last.success
                 /\ sbx'.last.error = "Sandbox not found"
                 /\ sandboxes' = sandboxes
           /\ (CloseReturned /\ ~sbx'.last.success) => sandboxes' = sandboxes
           /\ (CloseReturned /\ sbx'.last.success) =>
                 /\ sbx'.last.id \notin sandboxes'
                 /\ sandboxes' = sandboxes \ {sbx'.last.id} ]_vars

\* a second closeSandbox of a closed id has failed, while another id that
\* was returned and not closed is still registered
C30_Witness ==
    /\ 1 \in sbx.closed /\ 1 \notin sandboxes
    /\ sbx.last = [op |-> "closeSandbox", id |-> 1, success |-> FALSE,
                   error |-> "Sandbox not found"]
    /\ 2 \in sbx.returned /\ 2 \in sandboxes

====
